---- MODULE Spec2Model ----
(***************************************************************************)
(* Model of sensor.py: TierNearestScooterApi.get_vehicles and              *)
(* TierNearestScooterSensor.update under @Throttle(MIN_TIME_BETWEEN_       *)
(* UPDATES).                                                               *)
(*                                                                         *)
(* Fixed-point units: coordinates are integers in micro-degrees (1e-6      *)
(* degree), distances integers in decimetres, battery levels integers in   *)
(* tenths of a percent, time in minutes.  round(x), round(x, 5) are then   *)
(* genuine roundings (to 10 decimetres, to 10 micro-degrees, to 10 tenths).*)
(* Python's None is the empty sequence, a present value v is <<v>>.        *)
(* A dict is a function from its keys.                                     *)
(***************************************************************************)
EXTENDS Integers, Sequences, FiniteSets, TLC

VARIABLES
    state,        \* self._state: None or <<metres>>
    attributes,   \* self._attributes: dict
    throttle,     \* Throttle's last-call timestamp for this sensor: None or <<minute>>
    now,          \* the clock (utcnow), minutes
    response,     \* what the network gave the last permitted cycle's request
    fetch,        \* what get_vehicles gave the last permitted cycle
    before,       \* self._state as the last permitted cycle found it
    outcome,      \* how the last update() call ended
    fetched,      \* whether the last update() call issued a request
    logged,       \* the errors _LOGGER.error recorded during the last update() call
    attempt       \* minute of the last permitted cycle (returned or raised): None or <<minute>>

vars == <<state, attributes, throttle, now, response, fetch, before, outcome, fetched, logged,
          attempt>>

(* ------------------------------ bounds -------------------------------- *)
MaxVehicles == 2
MaxTime == 15
TickMinutes == 5

(* ----------------------------- constants ------------------------------ *)
MIN_TIME_BETWEEN_UPDATES == 10

ATTR_LATITUDE == "latitude"
ATTR_LONGITUDE == "longitude"
ATTR_BATTERY_LEVEL == "battery_level"
ATTR_ATTRIBUTION == "attribution"
ATTRIBUTION == "Data provided by Tier"

None == <<>>
Some(v) == <<v>>

\* The sensor's configured location (micro-degrees).
latitude == 52520000
longitude == 13405000

EmptyDict == [k \in {} |-> 0]

(* ------------------------- JSON values -------------------------------- *)
\* A JSON value is [type, ...]: null, a number, a string, an object (members:
\* a dict) or an array (items: a sequence).
JNull == [type |-> "null"]
JNumber(n) == [type |-> "number", value |-> n]
JString(t) == [type |-> "string", text |-> t]
JObject(m) == [type |-> "object", members |-> m]
JArray(s) == [type |-> "array", items |-> s]

\* Python truthiness of a decoded JSON value (`if result:`, `if vehicles:`).
Truthy(v) ==
    CASE v.type = "null" -> FALSE
      [] v.type = "number" -> v.value # 0
      [] v.type = "string" -> v.text # ""
      [] v.type = "object" -> DOMAIN v.members # {}
      [] v.type = "array" -> Len(v.items) > 0

(* --------------------------- rounding --------------------------------- *)
\* Python 3 round(): to the nearest multiple of `unit`, a half to the even one.
\* (\div floors and % is non-negative, so negative x needs no special case.)
RoundHalfEven(x, unit) ==
    LET q == x \div unit
        r == x % unit
    IN  IF 2 * r < unit THEN q
        ELSE IF 2 * r > unit THEN q + 1
        ELSE IF q % 2 = 0 THEN q ELSE q + 1

\* round(x) of a distance in decimetres or a battery level in tenths: whole
\* metres, whole percent.
round(x) == RoundHalfEven(x, 10)

\* round(x, 5) of a coordinate in micro-degrees: the value with 5 decimal
\* places, still written in micro-degrees (a multiple of 10).
round5(x) == RoundHalfEven(x, 10) * 10

(* --------------------------- distance --------------------------------- *)
Abs(x) == IF x < 0 THEN -x ELSE x

RECURSIVE SqrtSearch(_, _, _)
SqrtSearch(n, lo, hi) ==
    IF lo >= hi THEN lo
    ELSE LET mid == (lo + hi + 1) \div 2
         IN  IF mid * mid <= n THEN SqrtSearch(n, mid, hi)
             ELSE SqrtSearch(n, lo, mid - 1)

\* homeassistant.util.location.distance(lat1, lon1, lat2, lon2): metres between
\* two points.  The library computes the geodesic; the model computes the
\* planar approximation at the sensor's latitude (0.111 m per micro-degree of
\* latitude, 0.068 m per micro-degree of longitude), in decimetres.
distance(lat1, lon1, lat2, lon2) ==
    LET dy == (Abs(lat1 - lat2) * 111) \div 100
        dx == (Abs(lon1 - lon2) * 68) \div 100
    IN  SqrtSearch(dy * dy + dx * dx, 0, dx + dy)

(* ------------------------- the network -------------------------------- *)
\* What requests.get meets: a transport failure, or a response with a status
\* and a body that either decodes to a JSON value or does not.
Unparseable == [type |-> "unparseable"]

\* A handler written for connection and status errors only.
RequestExceptionNoTimeout == {"ConnectionError", "HTTPError"}

\* requests.exceptions.RequestException and its subclasses raised here.
RequestException == {"ConnectionError", "Timeout", "HTTPError"}
\* ValueError and its subclass raised by response.json().
ValueError == {"JSONDecodeError"}

\* response.raise_for_status(): HTTPError for a 4xx or 5xx status, nothing
\* for any other status.
raise_for_status(status) ==
    IF 400 <= status /\ status < 600 THEN Some("HTTPError") ELSE None

\* The try block of get_vehicles: the exception it raises, or the value it
\* returns.
TryBlock(resp) ==
    IF resp.net # "ok" THEN [exc |-> Some(resp.net), value |-> JNull]
    ELSE IF raise_for_status(resp.status) # None
         THEN [exc |-> raise_for_status(resp.status), value |-> JNull]
    ELSE IF resp.body = Unparseable
         THEN [exc |-> Some("JSONDecodeError"), value |-> JNull]
    ELSE [exc |-> None, value |-> resp.body]

\* TierNearestScooterApi.get_vehicles: the parsed body, or None (JSON null)
\* after logging; `raised` is an exception neither except clause caught.
get_vehicles(resp) ==
    LET t == TryBlock(resp)
    IN  IF t.exc = None
        THEN [raised |-> None, value |-> t.value, log |-> <<>>]
        ELSE IF t.exc[1] \in RequestException
        THEN [raised |-> None, value |-> JNull, log |-> <<"Error fetching data">>]
        ELSE IF t.exc[1] \in ValueError
        THEN [raised |-> None, value |-> JNull, log |-> <<"Error parsing data">>]
        ELSE [raised |-> t.exc, value |-> JNull, log |-> <<>>]

(* ------------------------ nearest vehicle ----------------------------- *)
\* Line 148: vehicle["distance"] = distance(vehicle["lat"], vehicle["lng"], ...).
VehicleDistance(vehicle) ==
    distance(vehicle["lat"], vehicle["lng"], latitude, longitude)

\* A sort with the comparison reversed: farthest first.
RECURSIVE InsertDescending(_, _)
InsertDescending(x, s) ==
    IF s = <<>> THEN <<x>>
    ELSE IF VehicleDistance(x) > VehicleDistance(Head(s)) THEN <<x>> \o s
    ELSE <<Head(s)>> \o InsertDescending(x, Tail(s))

\* A sort that is not stable: x goes before the elements at its own distance.
RECURSIVE InsertUnstable(_, _)
InsertUnstable(x, s) ==
    IF s = <<>> THEN <<x>>
    ELSE IF VehicleDistance(x) <= VehicleDistance(Head(s)) THEN <<x>> \o s
    ELSE <<Head(s)>> \o InsertUnstable(x, Tail(s))

\* Insertion of x into a sequence sorted by distance, after every element
\* that is not farther: the order of equal keys is kept (sorted() is stable).
RECURSIVE InsertSorted(_, _)
InsertSorted(x, s) ==
    IF s = <<>> THEN <<x>>
    ELSE IF VehicleDistance(x) < VehicleDistance(Head(s)) THEN <<x>> \o s
    ELSE <<Head(s)>> \o InsertSorted(x, Tail(s))

\* sorted(vehicles, key=lambda item: item["distance"])
RECURSIVE sorted(_)
sorted(s) ==
    IF s = <<>> THEN <<>>
    ELSE InsertSorted(s[Len(s)], sorted(SubSeq(s, 1, Len(s) - 1)))

\* The same with the KeyError swallowed without a log line.
ReadDataSilent(result) ==
    IF ~Truthy(result)
    THEN [raised |-> None, vehicles |-> JObject(EmptyDict),
          log |-> <<"Empty result found when expecting list of vehicles">>]
    ELSE IF result.type # "object"
    THEN [raised |-> Some("TypeError"), vehicles |-> JObject(EmptyDict), log |-> <<>>]
    ELSE IF "data" \notin DOMAIN result.members
    THEN [raised |-> None, vehicles |-> JObject(EmptyDict), log |-> <<>>]
    ELSE [raised |-> None, vehicles |-> result.members["data"], log |-> <<>>]

\* Lines 138-144: vehicles = result["data"] under `if result:`, with the
\* KeyError caught and logged; a result that is not a dict raises TypeError
\* from the subscript, which nothing catches.
ReadData(result) ==
    IF ~Truthy(result)
    THEN [raised |-> None, vehicles |-> JObject(EmptyDict),
          log |-> <<"Empty result found when expecting list of vehicles">>]
    ELSE IF result.type # "object"
    THEN [raised |-> Some("TypeError"), vehicles |-> JObject(EmptyDict), log |-> <<>>]
    ELSE IF "data" \notin DOMAIN result.members
    THEN [raised |-> None, vehicles |-> JObject(EmptyDict),
          log |-> <<"Erroneous result found when expecting list of vehicles">>]
    ELSE [raised |-> None, vehicles |-> result.members["data"], log |-> <<>>]

\* Lines 147-150: the loop raises TypeError when `vehicles` is no list of
\* dicts, KeyError at the first record without "lat" or "lng".
LoopRaises(vehicles) ==
    IF vehicles.type # "array" THEN Some("TypeError")
    ELSE IF \E i \in 1..Len(vehicles.items) :
                {"lat", "lng"} \ DOMAIN vehicles.items[i] # {}
    THEN Some("KeyError")
    ELSE None

\* A reset that forgets self._state = None.
ResetAttributesOnly(self) == [state |-> self.state, attributes |-> EmptyDict]

\* A reset that forgets self._attributes = {}.
ResetStateOnly(self) == [state |-> None, attributes |-> self.attributes]

\* Lines 130-131: the reset that opens every cycle.
Reset(self) == [state |-> None, attributes |-> EmptyDict]

\* Lines 152-158: the assignments from the nearest scooter, in order, each
\* attribute stored into the dict the reset left; the read of
\* scooter["batteryLevel"] raises KeyError after state, latitude and
\* longitude are already assigned.
Assign(self, scooter) ==
    LET st == Some(round(VehicleDistance(scooter)))
        a2 == (ATTR_LATITUDE :> round5(scooter["lat"]))
                @@ (ATTR_LONGITUDE :> round5(scooter["lng"]))
                @@ self.attributes
    IN  IF "batteryLevel" \notin DOMAIN scooter
        THEN [state |-> st, attributes |-> a2, raised |-> Some("KeyError")]
        ELSE [state |-> st,
              attributes |-> (ATTR_BATTERY_LEVEL :> round(scooter["batteryLevel"]))
                                @@ (ATTR_ATTRIBUTION :> ATTRIBUTION) @@ a2,
              raised |-> None]

\* TierNearestScooterSensor.update (the body under the decorator) on the
\* sensor's fields `self`, for the network's answer `resp`: the fields it
\* leaves, what get_vehicles gave it, what was logged, and the exception that
\* escaped it, if any.
update(self, resp) ==
    LET s0 == Reset(self)
        g == get_vehicles(resp)
        d == ReadData(g.value)
        stop(log, exc) == [state |-> s0.state, attributes |-> s0.attributes,
                           fetch |-> g, log |-> log, raised |-> exc]
    IN  IF g.raised # None THEN stop(g.log, g.raised)
        ELSE IF d.raised # None THEN stop(g.log \o d.log, d.raised)
        ELSE IF ~Truthy(d.vehicles) THEN stop(g.log \o d.log, None)
        ELSE IF LoopRaises(d.vehicles) # None
        THEN stop(g.log \o d.log, LoopRaises(d.vehicles))
        ELSE LET a == Assign(s0, sorted(d.vehicles.items)[1])
             IN  [state |-> a.state, attributes |-> a.attributes, fetch |-> g,
                  log |-> g.log \o d.log, raised |-> a.raised]

(* --------------------- what the network can answer -------------------- *)
Vehicle(lat, lng, battery) ==
    ("lat" :> lat) @@ ("lng" :> lng) @@ ("batteryLevel" :> battery)

Without(vehicle, key) == [k \in DOMAIN vehicle \ {key} |-> vehicle[k]]

\* Two scooters at the same distance north and south of the sensor, and a
\* farther one.
North == Vehicle(latitude + 723, longitude, 875)
South == Vehicle(latitude - 723, longitude, 640)
Far == Vehicle(latitude + 1084, longitude + 4, 1000)

WellFormed == {North, South, Far}
Malformed == {Without(North, "lat"), Without(North, "lng"), Without(North, "batteryLevel")}
VehicleRecords == WellFormed \cup Malformed

SeqsUpTo(S, n) == UNION {[1..k -> S] : k \in 0..n}

Bodies ==
    {Unparseable, JNull, JNumber(0), JString("Forbidden"), JObject(EmptyDict),
     JArray(<<North>>), JObject("message" :> JNumber(7)),
     JObject("data" :> JNull), JObject("data" :> JNumber(7)),
     JObject("data" :> JObject("message" :> JNumber(7)))}
    \cup {JObject("data" :> JArray(s)) : s \in SeqsUpTo(VehicleRecords, MaxVehicles)}

Responses ==
    {[net |-> n, status |-> 200, body |-> JNull] : n \in {"ConnectionError", "Timeout"}}
    \cup {[net |-> "ok", status |-> 200, body |-> b] : b \in Bodies}
    \cup {[net |-> "ok", status |-> st, body |-> b] :
            st \in {300, 404, 503},
            b \in {Unparseable, JObject("data" :> JArray(<<North>>))}}

NoResponse == [net |-> "none", status |-> 0, body |-> JNull]
NoFetch == [raised |-> None, value |-> JNull, log |-> <<>>]

\* The sensor's fields.
Self == [state |-> state, attributes |-> attributes]

(* ------------------------------ actions ------------------------------- *)
\* TierNearestScooterSensor.__init__
Init ==
    /\ state = None
    /\ attributes = EmptyDict
    /\ throttle = None
    /\ now = 0
    /\ response = NoResponse
    /\ fetch = NoFetch
    /\ before = None
    /\ outcome = "none"
    /\ fetched = FALSE
    /\ logged = <<>>
    /\ attempt = None

\* Throttle's test at call entry (`force or utcnow() - last > min_time`):
\* never called, or strictly more than min_time since the last call that
\* returned.
Permitted ==
    IF throttle = None THEN TRUE
    ELSE now - throttle[1] > MIN_TIME_BETWEEN_UPDATES

\* update() while throttled: the wrapper returns None without calling the body.
UpdateThrottled ==
    /\ ~Permitted
    /\ outcome' = "throttled"
    /\ fetched' = FALSE
    /\ logged' = <<>>
    /\ UNCHANGED <<state, attributes, throttle, now, response, fetch, before, attempt>>

\* update() when permitted: the body runs against the network's answer.  The
\* Throttle wrapper runs `result = method(...)` and then stores utcnow() as the
\* last call, so the time is recorded only when the body returns: an
\* exception leaves the previous timestamp in place.
UpdatePermitted(resp) ==
    /\ Permitted
    /\ \E u \in {update(Self, resp)} :
        /\ state' = u.state
        /\ attributes' = u.attributes
        /\ logged' = u.log
        /\ fetch' = u.fetch
        /\ outcome' = IF u.raised = None THEN "returned" ELSE "raised"
        /\ throttle' = IF u.raised = None THEN Some(now) ELSE throttle
    /\ fetched' = TRUE
    /\ response' = resp
    /\ before' = state
    /\ attempt' = Some(now)
    /\ UNCHANGED now

\* Time passes between calls.
Tick ==
    /\ now + TickMinutes <= MaxTime
    /\ now' = now + TickMinutes
    /\ UNCHANGED <<state, attributes, throttle, response, fetch, before, outcome, fetched,
                   logged, attempt>>

Next ==
    \/ UpdateThrottled
    \/ \E resp \in Responses : UpdatePermitted(resp)
    \/ Tick

Spec == Init /\ [][Next]_vars

(* ------------------- vocabulary of the properties --------------------- *)
\* A step in which update() ran its body (a permitted cycle).
CycleStep == now' = now /\ fetched'

\* A step in which update() was called, permitted or not.
CallStep == now' = now

\* The last call to update() ran its body and returned.
CycleReturned == outcome = "returned"

\* The fetch of the last permitted cycle returned null.
FetchNull == fetch.raised = None /\ fetch.value = JNull

\* The fetched body holds a list under "data".
ListPresent ==
    IF fetch.raised # None \/ fetch.value.type # "object" THEN FALSE
    ELSE IF "data" \notin DOMAIN fetch.value.members THEN FALSE
    ELSE fetch.value.members["data"].type = "array"

VehicleList == IF ListPresent THEN fetch.value.members["data"].items ELSE <<>>

ListEmpty == ListPresent /\ VehicleList = <<>>

\* A non-empty list of records that each hold lat, lng and batteryLevel.
GoodList ==
    /\ ListPresent
    /\ VehicleList # <<>>
    /\ \A i \in 1..Len(VehicleList) :
          DOMAIN VehicleList[i] = {"lat", "lng", "batteryLevel"}

AllKeys == {ATTR_LATITUDE, ATTR_LONGITUDE, ATTR_BATTERY_LEVEL, ATTR_ATTRIBUTION}

\* The attributes a reading of vehicle v holds.
ReadingOf(v) ==
    [k \in AllKeys |->
        CASE k = ATTR_LATITUDE -> round5(v["lat"])
          [] k = ATTR_LONGITUDE -> round5(v["lng"])
          [] k = ATTR_BATTERY_LEVEL -> round(v["batteryLevel"])
          [] k = ATTR_ATTRIBUTION -> ATTRIBUTION]

\* No record of the list is closer to the sensor than record i.
Nearest(i) ==
    \A j \in 1..Len(VehicleList) :
        VehicleDistance(VehicleList[i]) <= VehicleDistance(VehicleList[j])

\* The sensor's fields as the constructor leaves them.
InitSelf == [state |-> None, attributes |-> EmptyDict]

\* The failure outcomes of the outbound request.
TransportFailure == response.net \in {"ConnectionError", "Timeout"}
ErrorStatus == response.net = "ok" /\ response.status >= 400 /\ response.status < 600
Non2xxStatus == response.net = "ok" /\ (response.status < 200 \/ response.status > 299)
BodyUnparseable == response.net = "ok" /\ response.body = Unparseable

(* ----------------------------- C1 ------------------------------------- *)
\* C1: a permitted cycle whose fetch returned null, or whose vehicle list is
\* empty, ends with state None and attributes empty, whatever the sensor held
\* before the cycle.
C1_FailedOrEmptyCycleResets ==
    [][(CycleStep /\ (FetchNull' \/ ListEmpty'))
          => (state' = None /\ attributes' = EmptyDict)]_vars

\* A cycle with an empty vehicle list that found a known reading and left none.
C1_Witness ==
    /\ CycleReturned
    /\ ListEmpty
    /\ before # None
    /\ state = None
    /\ attributes = EmptyDict

(* ----------------------------- C2 ------------------------------------- *)
\* C2: when update() is called within MIN_TIME_BETWEEN_UPDATES of the end of
\* a call that fetched, the second call issues no fetch (one fetch in total)
\* and leaves state and attributes as the first call left them.
C2_SecondCallWithinIntervalSkipped ==
    [][(CallStep /\ fetched /\ attempt # None
          /\ now - attempt[1] <= MIN_TIME_BETWEEN_UPDATES)
          => (~fetched' /\ state' = state /\ attributes' = attributes)]_vars

(* ----------------------------- C3 ------------------------------------- *)
\* C3: no exception escapes update(): whatever the fetch gave, the call
\* returns, and unless the fetch gave a non-empty list of well-formed records
\* the cycle ends with state None and attributes empty.
C3_NoExceptionEscapes ==
    /\ outcome # "raised"
    /\ (fetched /\ ~GoodList) => (state = None /\ attributes = EmptyDict)

(* ----------------------------- C4 ------------------------------------- *)
\* C4 as stated: get_vehicles never raises, and returns null after logging an
\* error on a connection error, a timeout, a non-2xx status or an unparseable
\* body.
C4_NullOnNon2xx ==
    (response # NoResponse) =>
        /\ fetch.raised = None
        /\ (TransportFailure \/ Non2xxStatus \/ BodyUnparseable)
              => (fetch.value = JNull /\ Len(fetch.log) = 1)

\* C4 amended: get_vehicles never raises; it returns null after logging one
\* error on a connection error, a timeout, a 4xx or 5xx status or an
\* unparseable body, and the parsed body, with nothing logged, otherwise
\* (a status outside 2xx that is no 4xx or 5xx included).
C4_NullOnErrorStatus ==
    (response # NoResponse) =>
        /\ fetch.raised = None
        /\ IF TransportFailure \/ ErrorStatus \/ BodyUnparseable
           THEN fetch.value = JNull /\ Len(fetch.log) = 1
           ELSE fetch.value = response.body /\ fetch.log = <<>>

\* A request that timed out: null, one error logged, nothing raised.
C4_Witness ==
    /\ response.net = "Timeout"
    /\ fetch.raised = None
    /\ fetch.value = JNull
    /\ Len(fetch.log) = 1

(* ----------------------------- C5 ------------------------------------- *)
\* C5: after a cycle that fetched a non-empty list of well-formed records,
\* state is the rounded distance of a record no other record is closer than,
\* and the attributes are that record's rounded values.
C5_StateIsMinimumDistance ==
    GoodList =>
        \E i \in 1..Len(VehicleList) :
            /\ Nearest(i)
            /\ state = Some(round(VehicleDistance(VehicleList[i])))
            /\ attributes = ReadingOf(VehicleList[i])

\* The nearest record is not the first of the list, and is the one reported.
C5_Witness ==
    /\ CycleReturned
    /\ GoodList
    /\ Len(VehicleList) >= 2
    /\ ~Nearest(1)
    /\ state = Some(80)
    /\ attributes[ATTR_BATTERY_LEVEL] = 88

(* ----------------------------- C6 ------------------------------------- *)
\* C6: when several records are at the minimum distance, the attributes are
\* those of the first of them in the order of the fetched list.
C6_TieBreakFirstInInputOrder ==
    GoodList =>
        \E i \in 1..Len(VehicleList) :
            /\ Nearest(i)
            /\ \A j \in 1..(i - 1) :
                  VehicleDistance(VehicleList[j]) > VehicleDistance(VehicleList[i])
            /\ attributes = ReadingOf(VehicleList[i])

\* Two records at the same minimum distance with different values, the
\* first of them reported.
C6_Witness ==
    /\ CycleReturned
    /\ GoodList
    /\ \E i, j \in 1..Len(VehicleList) :
          /\ i < j
          /\ Nearest(i)
          /\ Nearest(j)
          /\ ReadingOf(VehicleList[i]) # ReadingOf(VehicleList[j])
          /\ attributes = ReadingOf(VehicleList[i])

(* ----------------------------- C7 ------------------------------------- *)
\* C7 as stated: a permitted cycle that meets a transport failure, an HTTP
\* error status, an unparseable body, a body without `data`, or an empty
\* vehicle list logs at least one error and ends with an unknown reading.
C7_FiveConditionsLogged ==
    (CycleReturned
        /\ (\/ TransportFailure
            \/ ErrorStatus
            \/ BodyUnparseable
            \/ (fetch.value.type = "object" /\ "data" \notin DOMAIN fetch.value.members)
            \/ ListEmpty))
    => (state = None /\ attributes = EmptyDict /\ Len(logged) >= 1)

\* C7 amended: a cycle that meets a transport failure, a 4xx or 5xx status
\* or an unparseable body logs the fetch error and the empty-result error and
\* ends unknown; one whose body is a JSON object without `data` logs one
\* error and ends unknown; a cycle with an empty vehicle list ends unknown
\* with nothing logged; and a cycle that returns unknown with nothing logged
\* is one whose body holds `data` with an empty or null value.
C7_LoggedExceptEmptyList ==
    CycleReturned =>
        /\ (TransportFailure \/ ErrorStatus \/ BodyUnparseable)
              => (state = None /\ Len(logged) = 2)
        /\ (fetch.value.type = "object" /\ "data" \notin DOMAIN fetch.value.members)
              => (state = None /\ Len(logged) = 1)
        /\ ListEmpty => (state = None /\ logged = <<>>)
        /\ (state = None /\ logged = <<>>)
              => /\ fetch.value.type = "object"
                 /\ "data" \in DOMAIN fetch.value.members
                 /\ ~Truthy(fetch.value.members["data"])

\* A cycle with an empty vehicle list: unknown, and nothing logged.
C7_Witness ==
    /\ CycleReturned
    /\ ListEmpty
    /\ state = None
    /\ attributes = EmptyDict
    /\ logged = <<>>

(* ----------------------------- C8 ------------------------------------- *)
\* C8: every permitted cycle, failed or not, starts a new throttle interval:
\* no call made within MIN_TIME_BETWEEN_UPDATES of the last permitted cycle
\* issues a fetch.
C8_NoFetchWithinIntervalOfAnyCycle ==
    [][(CallStep /\ attempt # None
          /\ now - attempt[1] <= MIN_TIME_BETWEEN_UPDATES) => ~fetched']_vars

(* ----------------------------- C9 ------------------------------------- *)
\* C9: the reading a permitted cycle leaves is the one the same fetch result
\* leaves on a freshly constructed sensor; a non-empty list of well-formed
\* records leaves a known reading whose attributes are all those of one
\* record of the list, a null fetch or an empty list an unknown one.
C9_ReadingIndependentOfPrevious ==
    [][CycleStep =>
          /\ state' = update(InitSelf, response').state
          /\ attributes' = update(InitSelf, response').attributes
          /\ GoodList' =>
                /\ state' # None
                /\ \E i \in 1..Len(VehicleList') :
                      attributes' = ReadingOf(VehicleList'[i])
          /\ (FetchNull' \/ ListEmpty') => (state' = None /\ attributes' = EmptyDict)
      ]_vars

\* A known reading overwritten by a different known reading.
C9_Witness ==
    /\ CycleReturned
    /\ GoodList
    /\ before # None
    /\ state # None
    /\ before # state

(* ----------------------------- C10 ------------------------------------ *)
\* C10: state and attributes are consistent in every state a caller can
\* observe: both empty, or a number with exactly the four attributes.
C10_StateAndAttributesConsistent ==
    \/ state = None /\ attributes = EmptyDict
    \/ state # None /\ DOMAIN attributes = AllKeys

====
